---- MODULE Spec2Model ----
(***************************************************************************)
(* Model of the lamport contract-generation pipeline:                      *)
(*   - the Static Validator (src/validators/static_validator.py),          *)
(*   - the Build Runner (src/utils/builder.py),                            *)
(*   - the pipeline stages (src/agents/*.py),                              *)
(*   - the workflow engine that routes between the stages                  *)
(*     (src/graph/workflow.py, whose source is not available: it is        *)
(*     modelled from section 4.1 of the specification).                    *)
(*                                                                         *)
(* Python str values are TLA+ strings; a dict is a sequence of             *)
(* <<key, value>> pairs with unique keys in insertion order; a list is a   *)
(* sequence; None is the distinguished value None.                         *)
(***************************************************************************)
EXTENDS Integers, Sequences, FiniteSets, TLC

\* ------------------------------------------------------------------------
\* Bounds of the model
\* ------------------------------------------------------------------------

\* largest number of entries of a files map handed to validate
MaxFiles == 2

\* stage invocations counted before the counter saturates
MaxInvocations == 12

\* lines of one kind in a toolchain output
MaxLines == 21

\* ------------------------------------------------------------------------
\* Python values and str operations
\* ------------------------------------------------------------------------

None == "<None>"

\* F(e), with the argument e evaluated once
Bind(e, F(_)) == CHOOSE r \in {F(v) : v \in {e}} : TRUE

\* s[i] as a one-character string
CharAt(s, i) == SubSeq(s, i, i)

\* str.count(ch) for a one-character ch
Count(s, ch) == Cardinality({i \in 1..Len(s) : CharAt(s, i) = ch})

\* sub in s
Contains(s, sub) ==
    \E i \in 1..(Len(s) - Len(sub) + 1) : SubSeq(s, i, i + Len(sub) - 1) = sub

\* s.startswith(pre)
StartsWith(s, pre) == Len(pre) <= Len(s) /\ SubSeq(s, 1, Len(pre)) = pre

\* s.endswith(suf)
EndsWith(s, suf) ==
    Len(suf) <= Len(s) /\ SubSeq(s, Len(s) - Len(suf) + 1, Len(s)) = suf

Whitespace == {" ", "\t", "\n", "\r", "\f"}

\* s.strip()
Strip(s) ==
    LET keep == {i \in 1..Len(s) : CharAt(s, i) \notin Whitespace}
    IN  IF keep = {} THEN ""
        ELSE LET lo == CHOOSE i \in keep : \A j \in keep : i <= j
                 hi == CHOOSE i \in keep : \A j \in keep : j <= i
             IN  SubSeq(s, lo, hi)

\* s.split(sep) for a one-character sep: the pieces between the separators
Split(s, sep) ==
    LET at     == {i \in 1..Len(s) : CharAt(s, i) = sep}
        pos(k) == IF k = 0 THEN 0
                  ELSE IF k > Cardinality(at) THEN Len(s) + 1
                  ELSE CHOOSE i \in at : Cardinality({j \in at : j < i}) = k - 1
    IN  [k \in 1..(Cardinality(at) + 1) |-> SubSeq(s, pos(k - 1) + 1, pos(k) - 1)]

\* the concatenation of the first n of a sequence of lists
RECURSIVE FlattenUpto(_, _)
FlattenUpto(lists, n) ==
    IF n = 0 THEN <<>> ELSE FlattenUpto(lists, n - 1) \o lists[n]

Flatten(lists) == Bind(lists, LAMBDA ls : FlattenUpto(ls, Len(ls)))

\* "".join of the first n of a sequence of strings
RECURSIVE JoinUpto(_, _)
JoinUpto(pieces, n) ==
    IF n = 0 THEN "" ELSE JoinUpto(pieces, n - 1) \o pieces[n]

\* the dict built by the assignments d[k] = v for the pairs <<k, v>> of ps in
\* order: a key keeps the position of its first assignment and the value of
\* its last
FromPairs(pairs) ==
    Bind(pairs, LAMBDA ps :
        LET first   == {i \in 1..Len(ps) : \A j \in 1..(i - 1) : ps[j][1] # ps[i][1]}
            nth(n)  == CHOOSE i \in first : Cardinality({j \in first : j < i}) = n - 1
            last(k) == CHOOSE i \in 1..Len(ps) :
                          /\ ps[i][1] = k
                          /\ \A j \in (i + 1)..Len(ps) : ps[j][1] # k
        IN  [n \in 1..Cardinality(first) |->
                <<ps[nth(n)][1], ps[last(ps[nth(n)][1])][2]>>])

\* d[k] = v
DictSet(d, k, v) == FromPairs(Append(d, <<k, v>>))

\* {**a, **b}
DictMerge(a, b) == FromPairs(a \o b)

\* ------------------------------------------------------------------------
\* Build Runner (src/utils/builder.py)
\* ------------------------------------------------------------------------

\* What the operating system does with one subprocess.run call: the process
\* exits with a return code and captured output, exceeds the timeout, or its
\* executable does not exist.
Proc(kind, code, out, err) ==
    [kind |-> kind, code |-> code, stdout |-> out, stderr |-> err]

\* run_command reporting a timeout with the success flag set
run_command_timeout_ok(cmd, proc) ==
    CASE proc.kind = "timeout"  -> <<TRUE, "", "Command timed out">>
      [] proc.kind = "notfound" -> <<FALSE, "", "Command not found: " \o cmd[1]>>
      [] OTHER                  -> <<proc.code = 0, proc.stdout, proc.stderr>>

\* Builder.run_command: (success, stdout, stderr)
run_command(cmd, proc) ==
    CASE proc.kind = "timeout"  -> <<FALSE, "", "Command timed out">>
      [] proc.kind = "notfound" -> <<FALSE, "", "Command not found: " \o cmd[1]>>
      [] OTHER                  -> <<proc.code = 0, proc.stdout, proc.stderr>>

\* cargo_check_sbf joining the two streams in the other order
cargo_check_sbf_swapped(proc) ==
    LET r == run_command(<<"cargo", "check", "--target", "sbf-solana-solana">>, proc)
    IN  <<r[1], r[3] \o r[2]>>

\* Builder.cargo_check_sbf: (success, stdout + stderr)
cargo_check_sbf(proc) ==
    LET r == run_command(<<"cargo", "check", "--target", "sbf-solana-solana">>, proc)
    IN  <<r[1], r[2] \o r[3]>>

\* Builder.anchor_build: (success, stdout + stderr)
anchor_build(proc) ==
    LET r == run_command(<<"anchor", "build">>, proc)
    IN  <<r[1], r[2] \o r[3]>>

\* Builder.get_build_artifact: the first *.so file of target/deploy, or None.
\* deploy.exists says whether target/deploy exists and deploy.names lists it
\* in glob order.
get_build_artifact(deploy) ==
    IF ~deploy.exists THEN None
    ELSE LET so == {i \in 1..Len(deploy.names) : EndsWith(deploy.names[i], ".so")}
         IN  IF so = {} THEN None
             ELSE "target/deploy/"
                  \o deploy.names[CHOOSE i \in so : \A j \in so : i <= j]

\* verify_build reporting success whenever an artifact file is there
verify_build_artifact_wins(proc, deploy) ==
    LET b == anchor_build(proc)
        artifact == get_build_artifact(deploy)
    IN  IF artifact # None
        THEN <<TRUE, "Build successful: " \o artifact>>
        ELSE IF b[1] THEN <<TRUE, "Build successful (artifact location unknown)">>
        ELSE <<FALSE, b[2]>>

\* verify_build treating a missing artifact as a failed build
verify_build_needs_artifact(proc, deploy) ==
    LET b == anchor_build(proc)
    IN  IF b[1]
        THEN LET artifact == get_build_artifact(deploy)
             IN  IF artifact # None
                 THEN <<TRUE, "Build successful: " \o artifact>>
                 ELSE <<FALSE, "Build successful (artifact location unknown)">>
        ELSE <<FALSE, b[2]>>

\* Builder.verify_build: (success, output)
verify_build(proc, deploy) ==
    LET b == anchor_build(proc)
    IN  IF b[1]
        THEN LET artifact == get_build_artifact(deploy)
             IN  IF artifact # None
                 THEN <<TRUE, "Build successful: " \o artifact>>
                 ELSE <<TRUE, "Build successful (artifact location unknown)">>
        ELSE <<FALSE, b[2]>>

\* ------------------------------------------------------------------------
\* Static Validator (src/validators/static_validator.py)
\* ------------------------------------------------------------------------

\* Every validate_* method appends to the shared list self.errors; errs is
\* that list before the call and the result is the list after it.

\* the errors validate_rust_syntax records for one .rs file
rust_file_errors(path, content) ==
    (IF Count(content, "{") # Count(content, "}")
        THEN <<path \o ": Mismatched braces">> ELSE <<>>)
    \o (IF Count(content, "(") # Count(content, ")")
        THEN <<path \o ": Mismatched parentheses">> ELSE <<>>)
    \o (IF Count(content, "[") # Count(content, "]")
        THEN <<path \o ": Mismatched brackets">> ELSE <<>>)
    \o (IF /\ ~Contains(content, "use anchor_lang")
           /\ ~Contains(content, "use solana_program")
           /\ ~StartsWith(Strip(content), "//")
        THEN <<path \o ": Missing anchor_lang or solana_program import">>
        ELSE <<>>)

validate_rust_syntax(errs, files) ==
    errs \o Flatten([i \in 1..Len(files) |->
                        IF EndsWith(files[i][1], ".rs")
                        THEN rust_file_errors(files[i][1], files[i][2])
                        ELSE <<>>])

validate_anchor_structure(errs, files) ==
    LET has(sub) == \E i \in 1..Len(files) : Contains(files[i][1], sub)
    IN  errs
        \o (IF ~has("Anchor.toml") THEN <<"Missing Anchor.toml configuration">> ELSE <<>>)
        \o (IF ~has("programs") THEN <<"Missing programs/ directory">> ELSE <<>>)
        \o (IF ~has("lib.rs") THEN <<"Missing programs/*/src/lib.rs">> ELSE <<>>)

\* the errors validate_cargo_toml records for one Cargo.toml file
cargo_file_errors(path, content) ==
    (IF ~Contains(content, "[dependencies]") /\ ~Contains(content, "[lib]")
        THEN <<path \o ": Missing expected sections">> ELSE <<>>)
    \o (IF ~Contains(content, "anchor-lang") /\ Contains(path, "programs")
        THEN <<path \o ": Missing anchor-lang dependency">> ELSE <<>>)

validate_cargo_toml(errs, files) ==
    errs \o Flatten([i \in 1..Len(files) |->
                        IF EndsWith(files[i][1], "Cargo.toml")
                        THEN cargo_file_errors(files[i][1], files[i][2])
                        ELSE <<>>])

\* re.search(r"error\[([^\]]+)\]: ([^\n]+)", line)
MatchBracketedError(line) ==
    \E i \in 1..Len(line) : \E j \in (i + 7)..Len(line) :
        /\ SubSeq(line, i, i + 5) = "error["
        /\ \A k \in (i + 6)..(j - 1) : CharAt(line, k) # "]"
        /\ j + 3 <= Len(line)
        /\ SubSeq(line, j, j + 2) = "]: "

\* re.search(r"error: ([^\n]+)", line)
MatchPlainError(line) ==
    \E i \in 1..(Len(line) - 7) : SubSeq(line, i, i + 6) = "error: "

\* re.search(r"--> ([^\n]+)", line)
MatchArrow(line) ==
    \E i \in 1..(Len(line) - 4) : SubSeq(line, i, i + 3) = "--> "

\* StaticValidator._parse_errors, the loop over the lines
parse_lines(lines) ==
    Bind(lines, LAMBDA ls :
        Flatten([i \in 1..Len(ls) |->
                    IF \/ MatchBracketedError(ls[i])
                       \/ MatchPlainError(ls[i])
                       \/ MatchArrow(ls[i])
                    THEN <<Strip(ls[i])>> ELSE <<>>]))

\* _parse_errors keeping five more lines
ErrorCap_more == 20 + 5

ErrorCap == 20

_parse_errors(output) ==
    Bind(parse_lines(Split(output, "\n")), LAMBDA errors :
        SubSeq(errors, 1, IF Len(errors) < ErrorCap THEN Len(errors) ELSE ErrorCap))

\* StaticValidator.run_cargo_check
run_cargo_check(proc) == cargo_check_sbf(proc)

\* the list self.errors after the three local checks of validate
local_errors(files) ==
    validate_cargo_toml(
        validate_anchor_structure(
            validate_rust_syntax(<<>>, files), files), files)

\* validate without the early return after the local checks
validate_no_early_return(files, proc) ==
    Bind(run_cargo_check(proc), LAMBDA c :
        IF ~c[1]
        THEN [passed |-> FALSE, errors |-> _parse_errors(c[2]),
              logs |-> c[2], spawned |-> 1]
        ELSE [passed |-> TRUE, errors |-> <<>>, logs |-> c[2], spawned |-> 1])

\* validate returning after the first local check that recorded an error
validate_short_circuit(files, proc) ==
    LET syntax    == validate_rust_syntax(<<>>, files)
        structure == validate_anchor_structure(<<>>, files)
        manifest  == validate_cargo_toml(<<>>, files)
    IN  Bind(IF syntax # <<>> THEN syntax
             ELSE IF structure # <<>> THEN structure ELSE manifest,
             LAMBDA errors :
        IF errors # <<>>
        THEN [passed |-> FALSE, errors |-> errors, logs |-> "", spawned |-> 0]
        ELSE Bind(run_cargo_check(proc), LAMBDA c :
                IF ~c[1]
                THEN [passed |-> FALSE, errors |-> _parse_errors(c[2]),
                      logs |-> c[2], spawned |-> 1]
                ELSE [passed |-> TRUE, errors |-> <<>>,
                      logs |-> c[2], spawned |-> 1]))

\* validate running the toolchain check a second time after a failed one
validate_retrying(files, proc) ==
    Bind(local_errors(files), LAMBDA errors :
        IF errors # <<>>
        THEN [passed |-> FALSE, errors |-> errors, logs |-> "", spawned |-> 0]
        ELSE Bind(run_cargo_check(proc), LAMBDA c :
                IF ~c[1]
                THEN [passed |-> FALSE, errors |-> _parse_errors(c[2]),
                      logs |-> c[2], spawned |-> 2]
                ELSE [passed |-> TRUE, errors |-> <<>>,
                      logs |-> c[2], spawned |-> 1]))

\* StaticValidator.validate.  proc is what the toolchain subprocess does if
\* it is spawned; the field spawned counts the subprocesses this call made
\* (an observation of the call, not a key of the returned dict).
validate(files, proc) ==
    Bind(local_errors(files), LAMBDA errors :
        IF errors # <<>>
        THEN [passed |-> FALSE, errors |-> errors, logs |-> "", spawned |-> 0]
        ELSE Bind(run_cargo_check(proc), LAMBDA c :
                IF ~c[1]
                THEN [passed |-> FALSE, errors |-> _parse_errors(c[2]),
                      logs |-> c[2], spawned |-> 1]
                ELSE [passed |-> TRUE, errors |-> <<>>,
                      logs |-> c[2], spawned |-> 1]))

\* ------------------------------------------------------------------------
\* Pipeline state and stages (src/schemas/models.py, src/agents/*.py)
\* ------------------------------------------------------------------------

\* a retry budget of two repairs
MAX_RETRIES_two == 1 + 1

\* schemas/models.py
MAX_RETRIES == 1

\* What one call of an LLM-backed executor does: it raises (raised, with the
\* exception text in err) or returns a value.
\*   spec interpreter: parsed says whether the text is JSON of a valid
\*                     TokenSpec, name is the token name;
\*   project planner:  files is the file map extracted from the output;
\*   code generator:   gen is the list of ProjectFile of the structured result;
\*   debugger:         patches is data.get("patches", []), has_files says
\*                     whether data has the key "files", files is data["files"].
Llm(raised, parsed, name, files, gen, patches, has_files) ==
    [raised |-> raised, err |-> "llm call failed", parsed |-> parsed,
     name |-> name, files |-> files, gen |-> gen, patches |-> patches,
     has_files |-> has_files, text |-> "raw output"]

\* the lifecycle sink of a caller whose callback raises on every notification
SinkRaises == "<sink raises>"

\* the lifecycle sink of a caller whose callback returns
SinkDelivers == "<sink delivers>"

\* state.on_event(tag): what the call of the sink does
sink_delivery(on_event, tag) ==
    IF on_event = SinkRaises THEN "raised" ELSE "delivered"

\* an except branch that returns a state rebuilt without the sink handle
agent_exception_unsinked(state, agent_name, llm) ==
    [state EXCEPT !.error_message = llm.err, !.current_step = agent_name,
                  !.on_event = None]

\* an except branch that returns a state built anew around the error
agent_exception_fresh(state, agent_name, llm) ==
    [state EXCEPT !.error_message = llm.err, !.current_step = agent_name,
                  !.files = <<>>, !.validation_errors = <<>>, !.retry_count = 0]

\* an except branch that logs the exception and returns the state as it was
agent_exception_silent(state, agent_name, llm) ==
    [state EXCEPT !.current_step = agent_name]

\* BaseAgent.run / LLMOnlyAgent.run, the except branch
agent_exception(state, agent_name, llm) ==
    [state EXCEPT !.error_message = llm.err, !.current_step = agent_name]

UpperAlpha == "ABCDEFGHIJKLMNOPQRSTUVWXYZ"
LowerAlpha == "abcdefghijklmnopqrstuvwxyz"
Digits == "0123456789"

\* str.lower() on one character
LowerChar(c) ==
    IF \E i \in 1..26 : CharAt(UpperAlpha, i) = c
    THEN CharAt(LowerAlpha, CHOOSE i \in 1..26 : CharAt(UpperAlpha, i) = c)
    ELSE c

IsSlugChar(c) == Contains(LowerAlpha, c) \/ Contains(Digits, c)

\* re.sub(r"[^a-z0-9]+", "_", s.lower()): every character outside a-z0-9
\* that starts a run of such characters becomes "_", the rest of the run
\* is dropped
SubNonSlug(s) ==
    LET low(i) == LowerChar(CharAt(s, i))
    IN  Bind([i \in 1..Len(s) |->
                IF IsSlugChar(low(i)) THEN low(i)
                ELSE IF i = 1 \/ IsSlugChar(low(i - 1)) THEN "_" ELSE ""],
             LAMBDA pieces : JoinUpto(pieces, Len(pieces)))

\* s.strip(ch)
StripChar(s, ch) ==
    LET keep == {i \in 1..Len(s) : CharAt(s, i) # ch}
    IN  IF keep = {} THEN ""
        ELSE LET lo == CHOOSE i \in keep : \A j \in keep : i <= j
                 hi == CHOOSE i \in keep : \A j \in keep : j <= i
             IN  SubSeq(s, lo, hi)

\* SpecInterpreter._extract_state_from_response, the project_name it derives
slug_of(token_name) ==
    Bind(StripChar(SubNonSlug(token_name), "_"), LAMBDA t :
        LET name == SubSeq(t, 1, IF Len(t) < 32 THEN Len(t) ELSE 32)
        IN  IF name = "" THEN "solana_contract" ELSE name)

\* an extraction that stores the interpretation over the user's text
SpecInterpreter_extract_state_rewriting(state, llm) ==
    IF llm.parsed
    THEN [state EXCEPT !.user_spec = llm.name,
                       !.interpreted_spec = llm.name,
                       !.project_name = slug_of(llm.name),
                       !.current_step = "project_planner"]
    ELSE [state EXCEPT
            !.error_message = "Failed to parse spec interpretation: " \o llm.text,
            !.current_step = "spec_interpreter"]

\* SpecInterpreter._extract_state_from_response
SpecInterpreter_extract_state(state, llm) ==
    IF llm.parsed
    THEN [state EXCEPT !.interpreted_spec = llm.name,
                       !.project_name = slug_of(llm.name),
                       !.current_step = "project_planner"]
    ELSE [state EXCEPT
            !.error_message = "Failed to parse spec interpretation: " \o llm.text,
            !.current_step = "spec_interpreter"]

\* LLMOnlyAgent.run for the spec interpreter
SpecInterpreter_run(state, llm) ==
    IF llm.raised THEN agent_exception(state, "spec_interpreter", llm)
    ELSE SpecInterpreter_extract_state(state, llm)

\* ProjectPlanner._extract_project_name, the outer loop from the i-th key on
RECURSIVE planner_name_from(_, _)
planner_name_from(files, i) ==
    IF i > Len(files) THEN "my-project"
    ELSE LET path    == files[i][1]
             content == files[i][2]
             inner   == {k \in 1..Len(files) :
                           /\ StartsWith(files[k][1], "programs/")
                           /\ Contains(files[k][1], "/src")
                           /\ Len(Split(files[k][1], "/")) >= 2}
         IN  IF /\ path = "Anchor.toml"
                /\ (Contains(content, "[cluster]") \/ Contains(content, "[provider]"))
                /\ inner # {}
             THEN Split(files[CHOOSE k \in inner : \A m \in inner : k <= m][1], "/")[2]
             ELSE IF Contains(path, "programs/") /\ Len(Split(path, "/")) >= 2
             THEN Split(path, "/")[2]
             ELSE planner_name_from(files, i + 1)

_extract_project_name(files) == planner_name_from(files, 1)

\* _format_agent_result of the planner naming itself as the next step
ProjectPlanner_format_agent_result_stay(state, llm) ==
    IF llm.files # <<>> \/ state.files # <<>>
    THEN LET files == IF llm.files # <<>> THEN llm.files ELSE state.files
         IN  [state EXCEPT !.files = files,
                           !.project_name = _extract_project_name(files),
                           !.current_step = "project_planner"]
    ELSE [state EXCEPT
            !.error_message = "Failed to extract project structure: " \o llm.text,
            !.current_step = "project_planner"]

\* ProjectPlanner._format_agent_result
ProjectPlanner_format_agent_result(state, llm) ==
    IF llm.files # <<>> \/ state.files # <<>>
    THEN LET files == IF llm.files # <<>> THEN llm.files ELSE state.files
         IN  [state EXCEPT !.files = files,
                           !.project_name = _extract_project_name(files),
                           !.current_step = "code_generator"]
    ELSE [state EXCEPT
            !.error_message = "Failed to extract project structure: " \o llm.text,
            !.current_step = "project_planner"]

\* BaseAgent.run for the project planner
ProjectPlanner_run(state, llm) ==
    IF llm.raised THEN agent_exception(state, "project_planner", llm)
    ELSE ProjectPlanner_format_agent_result(state, llm)

\* {f.path: f.content for f in result.files}
files_dict_of(gen) ==
    FromPairs([i \in 1..Len(gen) |-> <<gen[i].path, gen[i].content>>])

\* _format_agent_result of the generator returning its own files only
CodeGenerator_format_agent_result_replace(state, llm) ==
    IF llm.gen # <<>>
    THEN [state EXCEPT !.files = files_dict_of(llm.gen),
                       !.current_step = "static_validator"]
    ELSE [state EXCEPT !.error_message = "Failed to generate code",
                       !.current_step = "code_generator"]

\* _format_agent_result of the generator passing an empty result on to the
\* validator
CodeGenerator_format_agent_result_lenient(state, llm) ==
    [state EXCEPT !.files = DictMerge(state.files, files_dict_of(llm.gen)),
                  !.current_step = "static_validator"]

\* CodeGenerator._format_agent_result
CodeGenerator_format_agent_result(state, llm) ==
    IF llm.gen # <<>>
    THEN [state EXCEPT !.files = DictMerge(state.files, files_dict_of(llm.gen)),
                       !.current_step = "static_validator"]
    ELSE [state EXCEPT !.error_message = "Failed to generate code",
                       !.current_step = "code_generator"]

\* run of a code generator that reports its progress to the sink inside the
\* try block
CodeGenerator_run_notifying(state, llm) ==
    IF llm.raised THEN agent_exception(state, "code_generator", llm)
    ELSE IF state.on_event # None
            /\ sink_delivery(state.on_event, "stage:code_generator:progress") = "raised"
    THEN agent_exception(state, "code_generator", [llm EXCEPT !.err = "sink failed"])
    ELSE CodeGenerator_format_agent_result(state, llm)

\* LLMOnlyAgent.run for the code generator
CodeGenerator_run(state, llm) ==
    IF llm.raised THEN agent_exception(state, "code_generator", llm)
    ELSE CodeGenerator_format_agent_result(state, llm)

\* run of a validator that counts the retry itself when the validation failed
StaticValidator_run_counting(state, proc) ==
    IF state.files = <<>>
    THEN [state EXCEPT !.validation_passed = FALSE,
                       !.validation_errors = <<"No files to validate">>,
                       !.current_step = "static_validator"]
    ELSE Bind(validate(state.files, proc), LAMBDA result :
            [state EXCEPT
                !.validation_passed = result.passed,
                !.validation_errors = result.errors,
                !.build_logs = result.logs,
                !.retry_count = IF result.passed THEN state.retry_count
                                ELSE state.retry_count + 1,
                !.current_step = IF result.passed THEN "build_contract"
                                 ELSE "debugger"])

\* StaticValidator.run
StaticValidator_run(state, proc) ==
    IF state.files = <<>>
    THEN [state EXCEPT !.validation_passed = FALSE,
                       !.validation_errors = <<"No files to validate">>,
                       !.current_step = "static_validator"]
    ELSE Bind(validate(state.files, proc), LAMBDA result :
            [state EXCEPT
                !.validation_passed = result.passed,
                !.validation_errors = result.errors,
                !.build_logs = result.logs,
                !.current_step = IF result.passed THEN "build_contract"
                                 ELSE "debugger"])

\* a patch the loop of Debugger._format_agent_result applies: path and content
\* are both present and non-empty
IsUsable(patch) ==
    /\ patch.path # None /\ patch.path # ""
    /\ patch.content # None /\ patch.content # ""

\* the for loop of Debugger._format_agent_result
apply_patch_list(files, patches) ==
    FromPairs(files \o Flatten([i \in 1..Len(patches) |->
                                  IF IsUsable(patches[i])
                                  THEN << <<patches[i].path, patches[i].content>> >>
                                  ELSE <<>>]))

\* the patches Debugger._format_agent_result works on
debugger_patches(llm) ==
    IF llm.patches = <<>> /\ llm.has_files
    THEN [i \in 1..Len(llm.files) |->
            [path |-> llm.files[i][1], content |-> llm.files[i][2]]]
    ELSE llm.patches

\* _format_agent_result of the debugger with the default next step of
\* BaseAgent (_get_default_next_step) where the patches were applied
Debugger_format_agent_result_default_step(state, llm) ==
    LET patches == debugger_patches(llm)
    IN  IF patches # <<>>
        THEN [state EXCEPT !.files = apply_patch_list(state.files, patches),
                           !.error_message = None,
                           !.current_step = "complete"]
        ELSE [state EXCEPT !.current_step = "abort",
                           !.error_message = "Debugger failed: " \o llm.text]

\* _format_agent_result of the debugger counting the retry itself
Debugger_format_agent_result_bump(state, llm) ==
    LET patches == debugger_patches(llm)
    IN  IF patches # <<>>
        THEN [state EXCEPT !.files = apply_patch_list(state.files, patches),
                           !.error_message = None,
                           !.retry_count = state.retry_count + 1,
                           !.current_step = "static_validator"]
        ELSE [state EXCEPT !.current_step = "abort",
                           !.error_message = "Debugger failed: " \o llm.text]

\* Debugger._format_agent_result
Debugger_format_agent_result(state, llm) ==
    LET patches == debugger_patches(llm)
    IN  IF patches # <<>>
        THEN [state EXCEPT !.files = apply_patch_list(state.files, patches),
                           !.error_message = None,
                           !.current_step = "static_validator"]
        ELSE [state EXCEPT !.current_step = "abort",
                           !.error_message = "Debugger failed: " \o llm.text]

\* BaseAgent.run for the debugger
Debugger_run(state, llm) ==
    IF llm.raised THEN agent_exception(state, "debugger", llm)
    ELSE Debugger_format_agent_result(state, llm)

\* ------------------------------------------------------------------------
\* Workflow engine (src/graph/workflow.py; modelled from the specification,
\* section 4.1, since its source is not part of the available files)
\* ------------------------------------------------------------------------

TerminalSuccess == "complete"
TerminalFailure == "abort"
TerminalSteps == {TerminalSuccess, TerminalFailure}
StageNames == {"spec_interpreter", "project_planner", "code_generator",
               "static_validator", "debugger", "build_contract"}

\* step 1: the state run_workflow starts from (GraphState defaults)
workflow_initial_state(user_spec, project_name, on_event) ==
    [user_spec |-> user_spec, project_name |-> project_name,
     on_event |-> on_event,
     interpreted_spec |-> None, files |-> <<>>,
     validation_passed |-> FALSE, validation_errors |-> <<>>,
     build_success |-> FALSE, build_logs |-> None, final_artifact |-> None,
     fix_attempted |-> FALSE, retry_count |-> 0, error_message |-> None,
     current_step |-> "spec_interpreter"]

\* step 4, entry to the repair stage: the retry is counted and the repair is
\* marked as attempted
repair_entry(s) ==
    [s EXCEPT !.current_step = "debugger",
              !.retry_count = s.retry_count + 1,
              !.fix_attempted = TRUE]

\* steps 3 to 6: the step that follows stage step, given the state s the
\* stage returned
workflow_route(step, s) ==
    IF step # "debugger" /\ s.error_message # None
    THEN [s EXCEPT !.current_step = TerminalFailure]
    ELSE CASE step = "static_validator" ->
                IF s.validation_passed
                THEN [s EXCEPT !.current_step = "build_contract"]
                ELSE IF s.retry_count < MAX_RETRIES
                THEN repair_entry(s)
                ELSE [s EXCEPT !.current_step = TerminalFailure]
           [] step = "debugger" ->
                IF s.current_step \in TerminalSteps THEN s
                ELSE [s EXCEPT !.current_step = "static_validator"]
           [] step = "build_contract" ->
                [s EXCEPT !.current_step =
                    IF s.build_success THEN TerminalSuccess ELSE TerminalFailure]
           [] OTHER -> s

\* step 6: the build step, around Builder.verify_build
build_contract_node(state, proc, deploy) ==
    Bind(verify_build(proc, deploy), LAMBDA r :
        [state EXCEPT !.build_success = r[1],
                      !.build_logs = r[2],
                      !.final_artifact = IF r[1] THEN get_build_artifact(deploy)
                                         ELSE None])

\* step 7: one lifecycle notification; no sink, a delivered notification and
\* a delivery that raised all leave the state as it was
workflow_notify(s, tag) ==
    IF s.on_event = None THEN s
    ELSE IF sink_delivery(s.on_event, tag) = "raised" THEN s
    ELSE s

\* a result that stamps the outcome on the returned state
workflow_result_marked(state) ==
    [state EXCEPT !.error_message =
        IF state.current_step = "abort" /\ state.error_message = None
        THEN "workflow failed" ELSE state.error_message]

\* step 8: the state run_workflow returns at a terminal step
workflow_result(state) == state

\* ------------------------------------------------------------------------
\* Inputs
\* ------------------------------------------------------------------------

GoodRs == "use anchor_lang;"
BadRs == "fn x() {"
LibPath == "programs/p/src/lib.rs"
CargoPath == "programs/p/Cargo.toml"

LlmRaise == Llm(TRUE, FALSE, "", <<>>, <<>>, <<>>, FALSE)

InterpreterLlm ==
    {LlmRaise,
     Llm(FALSE, FALSE, "", <<>>, <<>>, <<>>, FALSE),
     Llm(FALSE, TRUE, "My Token", <<>>, <<>>, <<>>, FALSE)}

PlannerLlm ==
    {LlmRaise}
    \cup {Llm(FALSE, FALSE, "", f, <<>>, <<>>, FALSE) :
            f \in {<<>>,
                   << <<"Anchor.toml", "[provider]">> >>,
                   << <<"Anchor.toml", "[provider]">>, <<LibPath, BadRs>> >>}}

GeneratorLlm ==
    {LlmRaise}
    \cup {Llm(FALSE, FALSE, "", <<>>, g, <<>>, FALSE) :
            g \in {<<>>,
                   <<[path |-> LibPath, content |-> GoodRs]>>,
                   <<[path |-> LibPath, content |-> BadRs]>>,
                   <<[path |-> LibPath, content |-> GoodRs],
                     [path |-> "../proj2/f.rs", content |-> GoodRs]>>,
                   <<[path |-> LibPath, content |-> GoodRs],
                     [path |-> "../other/f.rs", content |-> GoodRs]>>}}

DebuggerLlm ==
    {LlmRaise,
     Llm(FALSE, FALSE, "", << <<LibPath, GoodRs>> >>, <<>>, <<>>, TRUE)}
    \cup {Llm(FALSE, FALSE, "", <<>>, <<>>, ps, FALSE) :
            ps \in {<<>>,
                    <<[path |-> None, content |-> GoodRs]>>,
                    <<[path |-> LibPath, content |-> ""]>>,
                    <<[path |-> LibPath, content |-> GoodRs]>>}}

\* outcomes of the toolchain subprocess
ToolProcs ==
    {Proc("exit", 0, "", ""),
     Proc("exit", 0, "ok\n", "Finished"),
     Proc("exit", 101, "", "error[E0433]: failed to resolve\n"),
     Proc("exit", 101, "out\n", "warning: unused"),
     Proc("exit", 101, "", ""),
     Proc("timeout", 0, "", ""),
     Proc("notfound", 0, "", "")}

\* lines a toolchain writes
OutputLines ==
    {"error[E0433]: failed to resolve",
     "  error: linking failed  ",
     "   --> src/lib.rs:1:1",
     "error: aborting --> see above",
     "warning: unused",
     "note: see error[E0433] above",
     "   Compiling p v0.1.0"}

\* n times the line, each followed by a newline
RECURSIVE Repeat(_, _)
Repeat(line, n) == IF n = 0 THEN "" ELSE line \o "\n" \o Repeat(line, n - 1)

\* toolchain runs with long outputs: a run of one line on stdout, then
\* another line on stderr
LongProcs ==
    {Proc("exit", code, Repeat(l1, n), Repeat(l2, m)) :
        code \in {0, 101}, l1 \in OutputLines,
        l2 \in {"warning: unused", "   --> src/lib.rs:1:1"},
        n \in {1, MaxLines - 1, MaxLines}, m \in {0, 1}}

ValidateProcs == ToolProcs \cup LongProcs

\* listings of target/deploy
Deploys ==
    {[exists |-> FALSE, names |-> <<>>],
     [exists |-> TRUE, names |-> <<>>],
     [exists |-> TRUE, names |-> <<"p.json", "p.so">>]}

\* files maps handed to validate
ValidatorPaths == {"lib.rs", "Anchor.toml", "Anchor.toml.bak", LibPath, CargoPath}

ContentsOf(path) ==
    IF EndsWith(path, ".rs") THEN {GoodRs, BadRs, "  // todo ([", "// c\nfn x() {}"}
    ELSE IF EndsWith(path, "Cargo.toml") THEN {"[dependencies]\nanchor-lang", "[lib]", ""}
    ELSE {"[provider]"}

FileEntries == UNION {{<<p, c>> : c \in ContentsOf(p)} : p \in ValidatorPaths}

\* the files maps of the attempts of the validator stage taken on its own
AttemptMaps ==
    {<<>>,
     << <<"lib.rs", BadRs>> >>,
     << <<"Anchor.toml", "[provider]">>, <<LibPath, GoodRs>> >>,
     << <<"Anchor.toml", "[provider]">>, <<LibPath, BadRs>> >>,
     << <<LibPath, GoodRs>>, <<CargoPath, "[lib]">> >>}

FileMaps ==
    UNION {{d \in [1..n -> FileEntries] :
              \A i, j \in 1..n : i # j => d[i][1] # d[j][1]} : n \in 0..MaxFiles}

\* ------------------------------------------------------------------------
\* FileOps (src/utils/file_ops.py).  A store fs is the part of the file
\* system the operations touch: exists says whether the base directory is
\* there, disk is the set of <<absolute path, content>> of the regular files
\* ------------------------------------------------------------------------

\* FileOps.base_path
Root == "/x/proj"

\* the segments of a path with "", "." and ".." resolved
RECURSIVE NormalizeFrom(_, _, _)
NormalizeFrom(segs, i, acc) ==
    IF i > Len(segs) THEN acc
    ELSE IF segs[i] = "" \/ segs[i] = "." THEN NormalizeFrom(segs, i + 1, acc)
    ELSE IF segs[i] = ".."
         THEN NormalizeFrom(segs, i + 1,
                            IF acc = <<>> THEN acc ELSE SubSeq(acc, 1, Len(acc) - 1))
    ELSE NormalizeFrom(segs, i + 1, Append(acc, segs[i]))

\* "/" followed by the segments joined with "/"
RECURSIVE PathString(_, _)
PathString(segs, n) ==
    IF n = 0 THEN ""
    ELSE PathString(segs, n - 1) \o "/" \o segs[n]

\* (base_path / rel_path).resolve(): an absolute rel_path replaces the base
resolve_path(base, rel_path) ==
    Bind(NormalizeFrom((IF StartsWith(rel_path, "/") THEN <<>> ELSE Split(base, "/"))
                           \o Split(rel_path, "/"), 1, <<>>),
         LAMBDA segs : IF segs = <<>> THEN "/" ELSE PathString(segs, Len(segs)))

\* FileOps._resolve with the base directory given
resolve_in(base, rel_path) ==
    Bind(resolve_path(base, rel_path), LAMBDA path :
        IF ~StartsWith(path, base)
        THEN [ok |-> FALSE, path |-> path]
        ELSE [ok |-> TRUE, path |-> path])

\* FileOps._resolve: ok = FALSE stands for the ValueError
_resolve(rel_path) == resolve_in(Root, rel_path)

\* the content of the file at path, None when there is no such file
FileAt(disk, path) ==
    IF \E e \in disk : e[1] = path
    THEN (CHOOSE e \in disk : e[1] = path)[2]
    ELSE None

\* file_path.parent.mkdir(parents=True, exist_ok=True): creates the base
\* directory again when the file lies below it
mkdir_parents(fs, path) ==
    [fs EXCEPT !.exists = fs.exists \/ StartsWith(path, Root \o "/")]

\* path.write_text(content, encoding="utf-8", newline="\n"): the characters
\* are stored as given
Path_write_text(fs, path, content) ==
    [fs EXCEPT !.disk = {e \in fs.disk : e[1] # path} \cup {<<path, content>>}]

\* src.replace(dst): dst is now the file src was, src is gone
Path_replace(fs, src, dst) ==
    [fs EXCEPT !.disk = {e \in fs.disk : e[1] # src /\ e[1] # dst}
                            \cup {<<dst, FileAt(fs.disk, src)>>}]

\* file_path.with_suffix(file_path.suffix + ".tmp")
tmp_of(file_path) == file_path \o ".tmp"

\* FileOps.write_files, the loop from entry i on; error names the exception
\* that ended the call, None when it returned
RECURSIVE write_files_from(_, _, _)
write_files_from(fs, files, i) ==
    IF i > Len(files) THEN [fs |-> fs, error |-> None]
    ELSE Bind(_resolve(files[i][1]), LAMBDA r :
            IF ~r.ok THEN [fs |-> fs, error |-> "ValueError"]
            ELSE Bind(Path_write_text(mkdir_parents(fs, r.path),
                                      tmp_of(r.path), files[i][2]),
                      LAMBDA staged :
                         write_files_from(Path_replace(staged, tmp_of(r.path), r.path),
                                          files, i + 1)))

write_files(fs, files) == write_files_from(fs, files, 1)

\* FileOps.apply_patches, the loop from entry i on
RECURSIVE apply_patches_from(_, _, _)
apply_patches_from(fs, patches, i) ==
    IF i > Len(patches) THEN [fs |-> fs, error |-> None]
    ELSE Bind(_resolve(patches[i][1]), LAMBDA r :
            IF ~r.ok THEN [fs |-> fs, error |-> "ValueError"]
            ELSE Bind(Path_write_text(mkdir_parents(fs, r.path),
                                      tmp_of(r.path), patches[i][2]),
                      LAMBDA staged :
                         apply_patches_from(Path_replace(staged, tmp_of(r.path), r.path),
                                            patches, i + 1)))

\* apply_patches appending each patch to the content already there
apply_patches_as_diff(fs, patches) ==
    apply_patches_from(
        fs,
        [i \in 1..Len(patches) |->
            <<patches[i][1],
              (IF FileAt(fs.disk, _resolve(patches[i][1]).path) = None THEN ""
               ELSE FileAt(fs.disk, _resolve(patches[i][1]).path)) \o patches[i][2]>>],
        1)

apply_patches(fs, patches) == apply_patches_from(fs, patches, 1)

\* text read with universal newlines: "\r\n" and "\r" become "\n"
UniversalNewlines(s) ==
    Bind([i \in 1..Len(s) |->
            IF CharAt(s, i) = "\r" THEN "\n"
            ELSE IF CharAt(s, i) = "\n" /\ i > 1 /\ CharAt(s, i - 1) = "\r" THEN ""
            ELSE CharAt(s, i)],
         LAMBDA pieces : JoinUpto(pieces, Len(pieces)))

\* path.read_text(encoding="utf-8")
Path_read_text(fs, path) ==
    IF FileAt(fs.disk, path) = None
    THEN [content |-> None, error |-> "FileNotFoundError"]
    ELSE [content |-> UniversalNewlines(FileAt(fs.disk, path)), error |-> None]

\* FileOps.read_file
read_file(fs, rel_path) ==
    Bind(_resolve(rel_path), LAMBDA r :
        IF ~r.ok THEN [content |-> None, error |-> "ValueError"]
        ELSE Path_read_text(fs, r.path))

\* the patterns read_all_files scans for
ProjectSuffixes == {".toml", ".rs", ".ts", ".json"}

\* FileOps.read_all_files, as the set of <<relative path, content>>
read_all_files(fs) ==
    {<<SubSeq(e[1], Len(Root) + 2, Len(e[1])), UniversalNewlines(e[2])>> :
        e \in {f \in fs.disk :
                  /\ fs.exists
                  /\ StartsWith(f[1], Root \o "/")
                  /\ \E suffix \in ProjectSuffixes : EndsWith(f[1], suffix)}}

\* shutil.rmtree(base_path)
rmtree(fs) ==
    IF fs.exists
    THEN [fs |-> [exists |-> FALSE,
                  disk |-> {e \in fs.disk : ~StartsWith(e[1], Root \o "/")}],
          error |-> None]
    ELSE [fs |-> fs, error |-> "FileNotFoundError"]

\* cleanup without the test that the base directory exists
cleanup_unguarded(fs) == rmtree(fs)

\* FileOps.cleanup
cleanup(fs) ==
    IF fs.exists THEN rmtree(fs) ELSE [fs |-> fs, error |-> None]

\* relative paths handed to the store: inside the base directory, inside it
\* through a "..", in a sibling directory whose name starts with the base
\* directory's name, and in another sibling directory
StorePaths == {"src/lib.rs", "src/../a.rs", "../proj2/f.rs", "../other/f.rs"}

StoreContents == {"fn x() {", "a\r\nb"}

StoreEntries == StorePaths \X StoreContents

StoreMaps ==
    UNION {{d \in [1..n -> StoreEntries] :
              \A i, j \in 1..n : i # j => d[i][1] # d[j][1]} : n \in 0..MaxFiles}

\* a write running in steps: the paths it is given, the content of the new
\* attempt, and the stores it starts on (empty, or holding the last attempt)
StepPaths == {"a.rs", "b.rs", "../other/f.rs"}

NewContent == "v2"

StepMaps ==
    UNION {{d \in [1..n -> StepPaths \X {NewContent}] :
              \A i, j \in 1..n : i # j => d[i][1] # d[j][1]} : n \in 0..MaxFiles}

StepStores ==
    {[exists |-> TRUE, disk |-> {}],
     [exists |-> TRUE,
      disk |-> {<<Root \o "/a.rs", "v1">>, <<Root \o "/b.rs", "v1">>}]}

\* ------------------------------------------------------------------------
\* Workflow engine, the part around one stage invocation (modelled from the
\* specification, sections 2, 4.1 and 7)
\* ------------------------------------------------------------------------

\* the stages whose result is a files map
FileStages == {"project_planner", "code_generator", "debugger"}

\* the files a stage produced are written to the project directory through
\* the file store; a fault of the store is fatal and surfaces as a failure
\* of the stage (section 7, d)
workflow_persist(step, s, store) ==
    IF step \notin FileStages \/ s.error_message # None
                               \/ s.current_step \in TerminalSteps
    THEN [state |-> s, fs |-> store]
    ELSE Bind(write_files(store, s.files), LAMBDA w :
            [state |-> IF w.error = None THEN s
                       ELSE [s EXCEPT !.error_message = "I/O failure: " \o w.error,
                                      !.current_step = TerminalFailure],
             fs |-> w.fs])

\* steps 2 to 7 after the stage returned s: the end notification, the files
\* written, the next step
workflow_after_stage(step, s, store) ==
    Bind(workflow_persist(step, workflow_notify(s, "stage:" \o step \o ":end"), store),
         LAMBDA p : [state |-> workflow_route(step, p.state), fs |-> p.fs])

\* step 7: the notifications handed to the sink so far, after one more; with
\* no sink nothing is emitted
workflow_emit(s, log, tag) ==
    IF s.on_event = None THEN log ELSE Append(log, tag)

\* step 7 before the stage: the state the stage is invoked on
workflow_before_stage(step, s) == workflow_notify(s, "stage:" \o step \o ":start")

\* ------------------------------------------------------------------------
\* State
\* ------------------------------------------------------------------------

VARIABLES
    state,        \* the pipeline state (GraphState as a dict, with current_step)
    twin,         \* the state of the same run made with a sink that always raises
    events,       \* the lifecycle notifications handed to the sink of the run
    returned,     \* run_workflow has returned the final state
    prev_stage,   \* the stage invoked last, None before the first
    invocations,  \* stage invocations so far (saturates at MaxInvocations)
    repair_calls, \* invocations of the debugger so far
    last_llm,     \* what the executor of the last LLM-backed stage did
    last_check,   \* result of the last validate call, ran = FALSE before it
    last_build,   \* the last build: tool exit, output, artifact, verify_build result
    v_pc,         \* validate as a function: "ready" before the call, "done" after
    v_files,      \* the files map validate is called on
    v_proc,       \* what the toolchain subprocess of that call does
    v_result,     \* the result of that call
    fs,           \* the store FileOps works on
    fs_before,    \* the store before the last FileOps call
    call,         \* the last FileOps call and its outcome
    w_pc,         \* where a write_files / apply_patches call running in steps is
    w_files,      \* the map that call was given
    w_i,          \* the entry of the map that call is at
    handle,       \* the file a concurrent reader holds open
    seen          \* what the concurrent reader read last

pipeline_vars == <<state, twin, events, returned, prev_stage, invocations, repair_calls,
                   last_llm, last_check, last_build>>
validate_vars == <<v_pc, v_files, v_proc, v_result>>
store_vars == <<fs, fs_before, call>>
step_vars == <<w_pc, w_files, w_i, handle, seen>>
vars == <<state, twin, events, returned, prev_stage, invocations, repair_calls,
          last_llm, last_check, last_build, v_pc, v_files, v_proc, v_result,
          fs, fs_before, call, w_pc, w_files, w_i, handle, seen>>

NoCheck == [ran |-> FALSE, passed |-> FALSE, errors |-> <<>>, logs |-> "",
            spawned |-> 0, files |-> <<>>, project |-> {},
            checks |-> 0, steps |-> 0]
NoBuild == [ran |-> FALSE, spawned |-> 0, tool_ok |-> FALSE, output |-> "", artifact |-> None,
            proc |-> Proc("exit", 0, "", ""), verified |-> <<FALSE, "">>]
NoResult == [passed |-> FALSE, errors |-> <<>>, logs |-> "", spawned |-> 0]

PipelineInit(s) ==
    /\ state = s
    /\ twin = [s EXCEPT !.on_event = SinkRaises]
    /\ events = <<>>
    /\ returned = FALSE
    /\ prev_stage = None
    /\ invocations = 0
    /\ repair_calls = 0
    /\ last_llm = LlmRaise
    /\ last_check = NoCheck
    /\ last_build = NoBuild

ValidateIdle ==
    /\ v_pc = "idle"
    /\ v_files = <<>>
    /\ v_proc = Proc("exit", 0, "", "")
    /\ v_result = NoResult

\* FileOps.__init__: the base directory exists and nothing was called yet
EmptyStore == [exists |-> TRUE, disk |-> {}]

\* kind is the operation, paths the relative paths it was given, single the
\* files map when it has one entry, error the exception that ended the call,
\* content what read_file returned
NoCall == [kind |-> "none", paths |-> {}, single |-> <<>>, error |-> None,
           content |-> None, written |-> None]

StoreIdle ==
    /\ fs = EmptyStore
    /\ fs_before = EmptyStore
    /\ call = NoCall

\* data is the content of the open file: replacing the file at the path
\* leaves it alone, writing into the file changes it
NoHandle == [open |-> FALSE, path |-> None, data |-> None]

NoSight == [kind |-> "none", path |-> None, content |-> None, listing |-> {}]

StepsIdle ==
    /\ w_pc = "idle"
    /\ w_files = <<>>
    /\ w_i = 0
    /\ handle = NoHandle
    /\ seen = NoSight

Init ==
    /\ \E name \in {None, "my_token"} : \E on_event \in {None, SinkDelivers} :
          PipelineInit(workflow_initial_state("create a mintable token", name, on_event))
    /\ ValidateIdle
    /\ StoreIdle
    /\ StepsIdle

\* ------------------------------------------------------------------------
\* The run of the workflow: one action per stage invocation, each followed
\* by the routing decision of the engine
\* ------------------------------------------------------------------------

Invoked(stage) ==
    /\ prev_stage' = stage
    /\ invocations' = IF invocations < MaxInvocations THEN invocations + 1
                      ELSE invocations

Running(stage) == ~returned /\ state.current_step = stage

SpecInterpreterStep ==
    /\ Running("spec_interpreter")
    /\ \E llm \in InterpreterLlm :
          /\ \E s0 \in {workflow_before_stage("spec_interpreter", state)} :
             \E s1 \in {SpecInterpreter_run(s0, llm)} :
             \E r \in {workflow_after_stage("spec_interpreter", s1, fs)} :
                /\ state' = r.state
                /\ events' = workflow_emit(s1, workflow_emit(s0, events,
                                                "stage:spec_interpreter:start"),
                                           "stage:spec_interpreter:end")
                /\ fs' = r.fs
          /\ \E s0 \in {workflow_before_stage("spec_interpreter", twin)} :
             \E s1 \in {SpecInterpreter_run(s0, llm)} :
             \E r \in {workflow_after_stage("spec_interpreter", s1, fs)} :
                twin' = IF twin.current_step = "spec_interpreter" THEN r.state ELSE twin
          /\ last_llm' = llm
    /\ Invoked("spec_interpreter")
    /\ UNCHANGED <<returned, repair_calls, last_check, last_build>>
    /\ UNCHANGED validate_vars
    /\ UNCHANGED <<fs_before, call>>
    /\ UNCHANGED step_vars

ProjectPlannerStep ==
    /\ Running("project_planner")
    /\ \E llm \in PlannerLlm :
          /\ \E s0 \in {workflow_before_stage("project_planner", state)} :
             \E s1 \in {ProjectPlanner_run(s0, llm)} :
             \E r \in {workflow_after_stage("project_planner", s1, fs)} :
                /\ state' = r.state
                /\ events' = workflow_emit(s1, workflow_emit(s0, events,
                                                "stage:project_planner:start"),
                                           "stage:project_planner:end")
                /\ fs' = r.fs
          /\ \E s0 \in {workflow_before_stage("project_planner", twin)} :
             \E s1 \in {ProjectPlanner_run(s0, llm)} :
             \E r \in {workflow_after_stage("project_planner", s1, fs)} :
                twin' = IF twin.current_step = "project_planner" THEN r.state ELSE twin
          /\ last_llm' = llm
    /\ Invoked("project_planner")
    /\ UNCHANGED <<returned, repair_calls, last_check, last_build>>
    /\ UNCHANGED validate_vars
    /\ UNCHANGED <<fs_before, call>>
    /\ UNCHANGED step_vars

CodeGeneratorStep ==
    /\ Running("code_generator")
    /\ \E llm \in GeneratorLlm :
          /\ \E s0 \in {workflow_before_stage("code_generator", state)} :
             \E s1 \in {CodeGenerator_run(s0, llm)} :
             \E r \in {workflow_after_stage("code_generator", s1, fs)} :
                /\ state' = r.state
                /\ events' = workflow_emit(s1, workflow_emit(s0, events,
                                                "stage:code_generator:start"),
                                           "stage:code_generator:end")
                /\ fs' = r.fs
          /\ \E s0 \in {workflow_before_stage("code_generator", twin)} :
             \E s1 \in {CodeGenerator_run(s0, llm)} :
             \E r \in {workflow_after_stage("code_generator", s1, fs)} :
                twin' = IF twin.current_step = "code_generator" THEN r.state ELSE twin
          /\ last_llm' = llm
    /\ Invoked("code_generator")
    /\ UNCHANGED <<returned, repair_calls, last_check, last_build>>
    /\ UNCHANGED validate_vars
    /\ UNCHANGED <<fs_before, call>>
    /\ UNCHANGED step_vars

StaticValidatorStep ==
    /\ Running("static_validator")
    /\ \E proc \in ToolProcs :
          /\ \E s0 \in {workflow_before_stage("static_validator", state)} :
             \E s1 \in {StaticValidator_run(s0, proc)} :
             \E r \in {workflow_after_stage("static_validator", s1, fs)} :
                /\ state' = r.state
                /\ events' = workflow_emit(s1, workflow_emit(s0, events,
                                                "stage:static_validator:start"),
                                           "stage:static_validator:end")
          /\ \E s0 \in {workflow_before_stage("static_validator", twin)} :
             \E s1 \in {StaticValidator_run(s0, proc)} :
             \E r \in {workflow_after_stage("static_validator", s1, fs)} :
                twin' = IF twin.current_step = "static_validator" THEN r.state ELSE twin
          /\ IF state.files = <<>>
             THEN last_check' = [NoCheck EXCEPT !.ran = TRUE, !.project = fs.disk,
                                                !.checks = last_check.checks,
                                                !.steps = last_check.steps + 1]
             ELSE \E r \in {validate(state.files, proc)} :
                    last_check' = [ran |-> TRUE, passed |-> r.passed,
                                   errors |-> r.errors, logs |-> r.logs,
                                   spawned |-> r.spawned,
                                   files |-> state.files, project |-> fs.disk,
                                   checks |-> last_check.checks + r.spawned,
                                   steps |-> last_check.steps + 1]
    /\ Invoked("static_validator")
    /\ UNCHANGED <<returned, repair_calls, last_llm, last_build>>
    /\ UNCHANGED validate_vars
    /\ UNCHANGED store_vars
    /\ UNCHANGED step_vars

DebuggerStep ==
    /\ Running("debugger")
    /\ \E llm \in DebuggerLlm :
          /\ \E s0 \in {workflow_before_stage("debugger", state)} :
             \E s1 \in {Debugger_run(s0, llm)} :
             \E r \in {workflow_after_stage("debugger", s1, fs)} :
                /\ state' = r.state
                /\ events' = workflow_emit(s1, workflow_emit(s0, events,
                                                "stage:debugger:start"),
                                           "stage:debugger:end")
                /\ fs' = r.fs
          /\ \E s0 \in {workflow_before_stage("debugger", twin)} :
             \E s1 \in {Debugger_run(s0, llm)} :
             \E r \in {workflow_after_stage("debugger", s1, fs)} :
                twin' = IF twin.current_step = "debugger" THEN r.state ELSE twin
          /\ last_llm' = llm
    /\ Invoked("debugger")
    /\ repair_calls' = IF repair_calls < MaxInvocations THEN repair_calls + 1
                       ELSE repair_calls
    /\ UNCHANGED <<returned, last_check, last_build>>
    /\ UNCHANGED validate_vars
    /\ UNCHANGED <<fs_before, call>>
    /\ UNCHANGED step_vars

BuildStep ==
    /\ Running("build_contract")
    /\ \E proc \in ToolProcs : \E deploy \in Deploys :
          /\ \E s0 \in {workflow_before_stage("build_contract", state)} :
             \E s1 \in {build_contract_node(s0, proc, deploy)} :
             \E r \in {workflow_after_stage("build_contract", s1, fs)} :
                /\ state' = r.state
                /\ events' = workflow_emit(s1, workflow_emit(s0, events,
                                                "stage:build_contract:start"),
                                           "stage:build_contract:end")
          /\ \E s0 \in {workflow_before_stage("build_contract", twin)} :
             \E s1 \in {build_contract_node(s0, proc, deploy)} :
             \E r \in {workflow_after_stage("build_contract", s1, fs)} :
                twin' = IF twin.current_step = "build_contract" THEN r.state ELSE twin
          /\ last_build' = [ran |-> TRUE, spawned |-> last_build.spawned + 1,
                            tool_ok |-> anchor_build(proc)[1],
                            output |-> anchor_build(proc)[2],
                            artifact |-> get_build_artifact(deploy),
                            proc |-> proc,
                            verified |-> verify_build(proc, deploy)]
    /\ Invoked("build_contract")
    /\ UNCHANGED <<returned, repair_calls, last_llm, last_check>>
    /\ UNCHANGED validate_vars
    /\ UNCHANGED store_vars
    /\ UNCHANGED step_vars

\* the loop ends at a terminal step and run_workflow returns the state
Finish ==
    /\ ~returned
    /\ state.current_step \in TerminalSteps
    /\ returned' = TRUE
    /\ state' = workflow_result(state)
    /\ twin' = IF twin.current_step \in TerminalSteps THEN workflow_result(twin) ELSE twin
    /\ UNCHANGED events
    /\ UNCHANGED <<prev_stage, invocations, repair_calls, last_llm, last_check,
                   last_build>>
    /\ UNCHANGED validate_vars
    /\ UNCHANGED store_vars
    /\ UNCHANGED step_vars

Next ==
    \/ SpecInterpreterStep
    \/ ProjectPlannerStep
    \/ CodeGeneratorStep
    \/ StaticValidatorStep
    \/ DebuggerStep
    \/ BuildStep
    \/ Finish

Spec == Init /\ [][Next]_vars

\* the engine keeps running the loop until it returns
LiveSpec == Spec /\ WF_vars(Next)

\* ------------------------------------------------------------------------
\* validate as a function of the files map and the toolchain outcome
\* ------------------------------------------------------------------------

InitValidate ==
    /\ PipelineInit(workflow_initial_state("", None, None))
    /\ v_pc = "ready"
    /\ v_files \in FileMaps
    /\ v_proc = Proc("exit", 0, "", "")
    /\ v_result = NoResult
    /\ StoreIdle
    /\ StepsIdle

ValidateCall ==
    /\ v_pc = "ready"
    /\ \E proc \in ValidateProcs :
          /\ v_proc' = proc
          /\ v_result' = validate(v_files, proc)
    /\ v_pc' = "done"
    /\ UNCHANGED v_files
    /\ UNCHANGED pipeline_vars
    /\ UNCHANGED store_vars
    /\ UNCHANGED step_vars

NextValidate == ValidateCall

SpecValidate == InitValidate /\ [][NextValidate]_vars

\* ------------------------------------------------------------------------
\* The validator stage on its own: StaticValidator.run applied again and
\* again to the state it returned, the files map of each attempt being the
\* one its caller put into the state
\* ------------------------------------------------------------------------

InitAttempts ==
    /\ PipelineInit(workflow_initial_state("", None, None))
    /\ ValidateIdle
    /\ StoreIdle
    /\ StepsIdle

ValidatorAttempt ==
    /\ invocations < MaxInvocations
    /\ \E files \in AttemptMaps : \E proc \in ToolProcs :
          /\ \E s \in {StaticValidator_run([state EXCEPT !.files = files], proc)} :
                state' = s
          /\ IF files = <<>>
             THEN last_check' = [NoCheck EXCEPT !.ran = TRUE]
             ELSE \E r \in {validate(files, proc)} :
                    last_check' = [ran |-> TRUE, passed |-> r.passed,
                                   errors |-> r.errors, logs |-> r.logs,
                                   spawned |-> r.spawned,
                                   files |-> files, project |-> {},
                                   checks |-> 0, steps |-> 0]
    /\ Invoked("static_validator")
    /\ UNCHANGED <<twin, events, returned, repair_calls, last_llm, last_build>>
    /\ UNCHANGED validate_vars
    /\ UNCHANGED store_vars
    /\ UNCHANGED step_vars

NextAttempts == ValidatorAttempt

SpecAttempts == InitAttempts /\ [][NextAttempts]_vars

\* ------------------------------------------------------------------------
\* The store: one action per FileOps call, in any order
\* ------------------------------------------------------------------------

InitStore ==
    /\ PipelineInit(workflow_initial_state("", None, None))
    /\ ValidateIdle
    /\ StoreIdle
    /\ StepsIdle

WriteFilesCall ==
    /\ \E files \in StoreMaps : \E r \in {write_files(fs, files)} :
          /\ fs' = r.fs
          /\ call' = [NoCall EXCEPT
                        !.kind = "write_files",
                        !.paths = {files[i][1] : i \in 1..Len(files)},
                        !.single = IF Len(files) = 1 THEN files ELSE <<>>,
                        !.error = r.error]
    /\ fs_before' = fs
    /\ UNCHANGED pipeline_vars
    /\ UNCHANGED validate_vars
    /\ UNCHANGED step_vars

ApplyPatchesCall ==
    /\ \E patches \in StoreMaps : \E r \in {apply_patches(fs, patches)} :
          /\ fs' = r.fs
          /\ call' = [NoCall EXCEPT
                        !.kind = "apply_patches",
                        !.paths = {patches[i][1] : i \in 1..Len(patches)},
                        !.single = IF Len(patches) = 1 THEN patches ELSE <<>>,
                        !.error = r.error]
    /\ fs_before' = fs
    /\ UNCHANGED pipeline_vars
    /\ UNCHANGED validate_vars
    /\ UNCHANGED step_vars

\* written is the content the call just before wrote to this path, when that
\* call was a write_files of this one path that returned
ReadFileCall ==
    /\ \E rel_path \in StorePaths : \E r \in {read_file(fs, rel_path)} :
          call' = [NoCall EXCEPT
                     !.kind = "read_file", !.paths = {rel_path},
                     !.error = r.error, !.content = r.content,
                     !.written = IF /\ call.kind = "write_files"
                                    /\ call.error = None
                                    /\ Len(call.single) = 1
                                    /\ call.single[1][1] = rel_path
                                 THEN call.single[1][2] ELSE None]
    /\ fs_before' = fs
    /\ UNCHANGED fs
    /\ UNCHANGED pipeline_vars
    /\ UNCHANGED validate_vars
    /\ UNCHANGED step_vars

CleanupCall ==
    /\ \E r \in {cleanup(fs)} :
          /\ fs' = r.fs
          /\ call' = [NoCall EXCEPT !.kind = "cleanup", !.error = r.error]
    /\ fs_before' = fs
    /\ UNCHANGED pipeline_vars
    /\ UNCHANGED validate_vars
    /\ UNCHANGED step_vars

NextStore ==
    \/ WriteFilesCall
    \/ ApplyPatchesCall
    \/ ReadFileCall
    \/ CleanupCall

SpecStore == InitStore /\ [][NextStore]_vars

\* ------------------------------------------------------------------------
\* One write_files / apply_patches call running statement by statement,
\* and a reader of the same directory running beside it
\* ------------------------------------------------------------------------

InitSteps ==
    /\ PipelineInit(workflow_initial_state("", None, None))
    /\ ValidateIdle
    /\ fs \in StepStores
    /\ fs_before = fs
    /\ call = NoCall
    /\ StepsIdle

\* the file the call is writing now
StepTarget == _resolve(w_files[w_i][1]).path

\* the call is made
WriteBegin ==
    /\ w_pc = "idle"
    /\ \E kind \in {"write_files", "apply_patches"} : \E files \in StepMaps :
          /\ w_files' = files
          /\ call' = [NoCall EXCEPT
                        !.kind = kind,
                        !.paths = {files[i][1] : i \in 1..Len(files)},
                        !.single = IF Len(files) = 1 THEN files ELSE <<>>]
    /\ w_i' = 1
    /\ w_pc' = "loop"
    /\ fs_before' = fs
    /\ UNCHANGED <<fs, handle, seen>>
    /\ UNCHANGED pipeline_vars
    /\ UNCHANGED validate_vars

\* the head of the loop: the call returns after the last entry; _resolve
\* raises, or the parent directories are made and tmp is opened for writing
WriteResolve ==
    /\ w_pc = "loop"
    /\ IF w_i > Len(w_files)
       THEN /\ w_pc' = "done"
            /\ UNCHANGED <<fs, call>>
       ELSE IF ~_resolve(w_files[w_i][1]).ok
       THEN /\ w_pc' = "done"
            /\ call' = [call EXCEPT !.error = "ValueError"]
            /\ UNCHANGED fs
       ELSE /\ w_pc' = "staging"
            /\ fs' = Path_write_text(mkdir_parents(fs, StepTarget),
                                     tmp_of(StepTarget), "")
            /\ UNCHANGED call
    /\ UNCHANGED <<fs_before, w_files, w_i, handle, seen>>
    /\ UNCHANGED pipeline_vars
    /\ UNCHANGED validate_vars

\* tmp.write_text writes the content and closes tmp
WriteStage ==
    /\ w_pc = "staging"
    /\ fs' = Path_write_text(fs, tmp_of(StepTarget), w_files[w_i][2])
    /\ w_pc' = "replace"
    /\ UNCHANGED <<fs_before, call, w_files, w_i, handle, seen>>
    /\ UNCHANGED pipeline_vars
    /\ UNCHANGED validate_vars

\* tmp.replace(file_path) succeeds: the path now names the staged file
WriteReplace ==
    /\ w_pc = "replace"
    /\ fs' = Path_replace(fs, tmp_of(StepTarget), StepTarget)
    /\ w_i' = w_i + 1
    /\ w_pc' = "loop"
    /\ UNCHANGED <<fs_before, call, w_files, handle, seen>>
    /\ UNCHANGED pipeline_vars
    /\ UNCHANGED validate_vars

\* tmp.replace(file_path) raises OSError because the file is open (the case
\* the except clause is written for) and shutil.move, whose rename fails
\* the same way, copies: it opens file_path for writing, which empties it
WriteReplaceFails ==
    /\ w_pc = "replace"
    /\ handle.open /\ handle.path = StepTarget
    /\ fs' = Path_write_text(fs, StepTarget, "")
    /\ handle' = [handle EXCEPT !.data = ""]
    /\ w_pc' = "copy"
    /\ UNCHANGED <<fs_before, call, w_files, w_i, seen>>
    /\ UNCHANGED pipeline_vars
    /\ UNCHANGED validate_vars

\* shutil.move writes the content of tmp into file_path and unlinks tmp
WriteCopy ==
    /\ w_pc = "copy"
    /\ fs' = Path_replace(fs, tmp_of(StepTarget), StepTarget)
    /\ handle' = IF handle.open /\ handle.path = StepTarget
                 THEN [handle EXCEPT !.data = w_files[w_i][2]]
                 ELSE handle
    /\ w_i' = w_i + 1
    /\ w_pc' = "loop"
    /\ UNCHANGED <<fs_before, call, w_files, seen>>
    /\ UNCHANGED pipeline_vars
    /\ UNCHANGED validate_vars

\* the reader's read_file opens the file, or finds none
ReaderOpen ==
    /\ ~handle.open
    /\ \E rel_path \in {"a.rs", "b.rs"} : \E r \in {_resolve(rel_path)} :
          IF FileAt(fs.disk, r.path) = None
          THEN /\ seen' = [NoSight EXCEPT !.kind = "read_file", !.path = r.path]
               /\ UNCHANGED handle
          ELSE /\ handle' = [open |-> TRUE, path |-> r.path,
                              data |-> FileAt(fs.disk, r.path)]
               /\ UNCHANGED seen
    /\ UNCHANGED <<fs, fs_before, call, w_pc, w_files, w_i>>
    /\ UNCHANGED pipeline_vars
    /\ UNCHANGED validate_vars

\* the reader's read_file reads the open file and closes it
ReaderRead ==
    /\ handle.open
    /\ seen' = [NoSight EXCEPT !.kind = "read_file", !.path = handle.path,
                               !.content = UniversalNewlines(handle.data)]
    /\ handle' = NoHandle
    /\ UNCHANGED <<fs, fs_before, call, w_pc, w_files, w_i>>
    /\ UNCHANGED pipeline_vars
    /\ UNCHANGED validate_vars

\* the reader reads the whole project
ReaderReadAll ==
    /\ ~handle.open
    /\ seen' = [NoSight EXCEPT !.kind = "read_all_files",
                               !.listing = read_all_files(fs)]
    /\ UNCHANGED <<fs, fs_before, call, w_pc, w_files, w_i, handle>>
    /\ UNCHANGED pipeline_vars
    /\ UNCHANGED validate_vars

NextSteps ==
    \/ WriteBegin
    \/ WriteResolve
    \/ WriteStage
    \/ WriteReplace
    \/ WriteReplaceFails
    \/ WriteCopy
    \/ ReaderOpen
    \/ ReaderRead
    \/ ReaderReadAll

SpecSteps == InitSteps /\ [][NextSteps]_vars

\* ------------------------------------------------------------------------
\* Properties of the workflow run (checked under Spec and LiveSpec)
\* ------------------------------------------------------------------------

\* the last validation ran the validator on the files and it failed
LastValidationFailed == last_check.ran /\ ~last_check.passed

\* the patch list the debugger last returned holds no usable patch
NoUsablePatch(llm) ==
    \A i \in 1..Len(debugger_patches(llm)) : ~IsUsable(debugger_patches(llm)[i])

\* C1: retry_count never exceeds MAX_RETRIES, the repair stage is invoked at
\* most once per run, and a validation that fails when the retry budget is
\* used up leads to terminal failure, not to another repair.
C1_RetryBounded ==
    /\ state.retry_count <= MAX_RETRIES
    /\ repair_calls <= 1
    /\ (prev_stage = "static_validator" /\ LastValidationFailed /\ repair_calls >= 1)
          => state.current_step = TerminalFailure

\* a validation failed after the one repair and the run is at terminal failure
C1_Witness ==
    /\ prev_stage = "static_validator"
    /\ LastValidationFailed
    /\ repair_calls = 1
    /\ state.retry_count = MAX_RETRIES
    /\ state.current_step = TerminalFailure

\* C2: every run eventually reaches a terminal step, whatever the stages
\* return (an error with current_step naming the stage itself included).
C2_Terminates == <>(state.current_step \in TerminalSteps)

\* a stage raised, returned its own name as current_step, and the run is at
\* a terminal step
C2_Witness ==
    /\ prev_stage = "code_generator"
    /\ last_llm.raised
    /\ state.error_message # None
    /\ state.current_step \in TerminalSteps

\* C3: the only steps that are not stages are the success step and the
\* failure step, and both are absorbing: from a terminal step on no stage is
\* invoked and no field of the pipeline state changes.
C3_TerminalAbsorbing ==
    [][/\ state'.current_step \in StageNames \cup {TerminalSuccess, TerminalFailure}
       /\ state.current_step \in TerminalSteps =>
             /\ state' = state
             /\ prev_stage' = prev_stage
             /\ invocations' = invocations
             /\ repair_calls' = repair_calls]_vars

\* the run has returned from the terminal failure step
C3_Witness ==
    /\ returned
    /\ state.current_step = TerminalFailure
    /\ prev_stage = "static_validator"

\* C4: a terminal state carries a build artifact reference or a non-empty
\* error trail (error_message, validation_errors or build_logs).
C4_TerminalTrail ==
    state.current_step \in TerminalSteps =>
        \/ state.final_artifact # None
        \/ state.error_message # None
        \/ state.validation_errors # <<>>
        \/ (state.build_logs # None /\ state.build_logs # "")

\* C5: validation fails once, the debugger returns a non-empty patch list,
\* the re-validation passes and the build tool succeeds: the run ends at
\* terminal success with build_success, retry_count = 1 and no error_message.
C5_RepairedRunSucceeds ==
    (/\ returned
     /\ repair_calls = 1
     /\ ~last_llm.raised
     /\ debugger_patches(last_llm) # <<>>
     /\ last_check.ran /\ last_check.passed
     /\ last_build.ran /\ last_build.tool_ok)
    => /\ state.current_step = TerminalSuccess
       /\ state.build_success
       /\ state.retry_count = 1
       /\ state.error_message = None

\* such a run has returned
C5_Witness ==
    /\ returned
    /\ repair_calls = 1
    /\ ~last_llm.raised
    /\ debugger_patches(last_llm) # <<>>
    /\ last_check.passed
    /\ last_build.ran /\ last_build.tool_ok
    /\ state.current_step = TerminalSuccess

\* C6: when the debugger returns no usable patch (an empty list, or a list
\* whose entries all lack a path or a content), the next step is terminal
\* failure: the validator is not entered again.
C6_NoPatchAborts ==
    (prev_stage = "debugger" /\ ~last_llm.raised /\ NoUsablePatch(last_llm))
        => state.current_step = TerminalFailure

\* C7: the debugger is only ever invoked right after a failed validation, and
\* the build step is followed by terminal success when the build tool
\* succeeded and by terminal failure carrying the build output when it failed.
C7_BuildNeverRepaired ==
    /\ state.current_step = "debugger" =>
          prev_stage = "static_validator" /\ LastValidationFailed
    /\ prev_stage = "debugger" => ~last_build.ran
    /\ prev_stage = "build_contract" =>
          \/ /\ last_build.tool_ok
             /\ state.current_step = TerminalSuccess
          \/ /\ ~last_build.tool_ok
             /\ state.current_step = TerminalFailure
             /\ state.build_logs = last_build.output

\* a build whose tool succeeded without leaving an artifact
C7_Witness ==
    /\ prev_stage = "build_contract"
    /\ last_build.tool_ok
    /\ last_build.artifact = None
    /\ state.current_step = TerminalSuccess

\* ------------------------------------------------------------------------
\* Properties of validate (checked under SpecValidate)
\* ------------------------------------------------------------------------

SyntaxErrors == validate_rust_syntax(<<>>, v_files)
StructureErrors == validate_anchor_structure(<<>>, v_files)
ManifestErrors == validate_cargo_toml(<<>>, v_files)

\* the toolchain subprocess of the call exited with success
ToolSucceeded == v_proc.kind = "exit" /\ v_proc.code = 0

\* the raw output of the toolchain subprocess: stdout followed by stderr
ToolOutput ==
    LET r == run_command(<<"cargo", "check", "--target", "sbf-solana-solana">>, v_proc)
    IN  r[2] \o r[3]

BraceExample == << <<"lib.rs", BadRs>> >>

\* C8: when the syntax layer or the structural layer records an error,
\* validate spawns no toolchain subprocess.
C8_NoToolchainAfterLocalError ==
    (v_pc = "done" /\ (SyntaxErrors # <<>> \/ StructureErrors # <<>>))
        => v_result.spawned = 0

\* a call on a files map with a syntax error
C8_Witness ==
    /\ v_pc = "done"
    /\ SyntaxErrors # <<>>
    /\ StructureErrors = <<>>
    /\ v_result.spawned = 0

C10_PassedAndLogs ==
    v_pc = "done" =>
        /\ local_errors(v_files) # <<>> => ~v_result.passed
        /\ v_result.errors # <<>> => ~v_result.passed
        /\ v_result.passed <=> (local_errors(v_files) = <<>> /\ ToolSucceeded)
        /\ v_result.spawned = 0 => v_result.logs = ""
        /\ v_result.spawned = 1 => v_result.logs = ToolOutput
        /\ v_result.spawned = 0 <=> local_errors(v_files) # <<>>

\* a passing call whose toolchain wrote to both streams
C10_Witness ==
    /\ v_pc = "done"
    /\ v_result.passed
    /\ v_result.spawned = 1
    /\ v_proc.stdout # "" /\ v_proc.stderr # ""
    /\ v_result.logs = v_proc.stdout \o v_proc.stderr

\* the key is the file called name, at the top level or in a directory
NamesFile(key, name) == key = name \/ EndsWith(key, "/" \o name)

\* the key lies in a directory called dir
InDirectory(key, dir) == StartsWith(key, dir \o "/") \/ Contains(key, "/" \o dir \o "/")

ManifestPresent == \E i \in 1..Len(v_files) : NamesFile(v_files[i][1], "Anchor.toml")
ProgramsPresent == \E i \in 1..Len(v_files) : InDirectory(v_files[i][1], "programs")
EntryModulePresent == \E i \in 1..Len(v_files) : NamesFile(v_files[i][1], "lib.rs")

\* how many times the call returned the error
Reported(error) ==
    Cardinality({i \in 1..Len(v_result.errors) : v_result.errors[i] = error})

\* C11: when the syntax layer passes, each required artifact (Anchor.toml,
\* the programs directory, lib.rs) that no key of the files map names
\* contributes exactly one error and each one present contributes none.
C11_OneErrorPerAbsentArtifact ==
    (v_pc = "done" /\ SyntaxErrors = <<>>) =>
        /\ Reported("Missing Anchor.toml configuration")
              = (IF ManifestPresent THEN 0 ELSE 1)
        /\ Reported("Missing programs/ directory")
              = (IF ProgramsPresent THEN 0 ELSE 1)
        /\ Reported("Missing programs/*/src/lib.rs")
              = (IF EntryModulePresent THEN 0 ELSE 1)

\* what a line of toolchain output is as a diagnostic: the trimmed line for
\* an error with a bracketed code, a plain error or a source location, None
\* for any other line
DiagnosticOf(line) ==
    CASE line = "error[E0433]: failed to resolve" -> "error[E0433]: failed to resolve"
      [] line = "  error: linking failed  " -> "error: linking failed"
      [] line = "   --> src/lib.rs:1:1" -> "--> src/lib.rs:1:1"
      [] line = "error: aborting --> see above" -> "error: aborting --> see above"
      [] OTHER -> None

\* the diagnostics among the lines of the raw output, in output order
OutputDiagnostics ==
    LET lines == SelectSeq(Split(ToolOutput, "\n"),
                           LAMBDA l : DiagnosticOf(l) # None)
    IN  [i \in 1..Len(lines) |-> DiagnosticOf(lines[i])]

\* the toolchain of the call ran and did not succeed
ToolFailed == v_pc = "done" /\ v_result.spawned = 1 /\ ~ToolSucceeded

\* C12: when the toolchain check fails, the errors are the lines of its raw
\* output that match a diagnostic pattern, trimmed, one per line, in output
\* order, cut to the first 20.
C12_ParsedDiagnostics ==
    ToolFailed =>
        /\ Len(v_result.errors) <= 20
        /\ v_result.errors =
              SubSeq(OutputDiagnostics, 1,
                     IF Len(OutputDiagnostics) < 20 THEN Len(OutputDiagnostics) ELSE 20)

\* a failed toolchain whose output has more than 20 diagnostics, the first
\* of them error[E0433]
C12_Witness ==
    /\ ToolFailed
    /\ Len(OutputDiagnostics) > 20
    /\ Len(v_result.errors) = 20
    /\ v_result.errors[1] = "error[E0433]: failed to resolve"

\* C13: after a validation attempt the state never holds non-empty
\* validation_errors together with a non-empty build log of that attempt.
C13_ErrorsLogExclusive ==
    (prev_stage = "static_validator" /\ state.files # <<>>) =>
        ~(/\ state.validation_errors # <<>>
          /\ state.build_logs # None
          /\ state.build_logs # "")

\* ------------------------------------------------------------------------
\* Properties of the store (checked under SpecStore)
\* ------------------------------------------------------------------------

\* the absolute path lies in the base directory
InsideRoot(path) == path = Root \/ StartsWith(path, Root \o "/")

\* the relative path has a ".." segment and resolves outside the base directory
Escapes(rel_path) ==
    /\ \E i \in 1..Len(Split(rel_path, "/")) : Split(rel_path, "/")[i] = ".."
    /\ ~InsideRoot(resolve_path(Root, rel_path))

\* the files outside the base directory
Outside(disk) == {e \in disk : ~InsideRoot(e[1])}

\* C14: write_files, apply_patches and read_file given a path with ".."
\* that resolves outside the base directory fail, and no file outside the
\* base directory is created or modified.
C14_TraversalRejected ==
    (/\ call.kind \in {"write_files", "apply_patches", "read_file"}
     /\ \E p \in call.paths : Escapes(p)) =>
        /\ call.error # None
        /\ Outside(fs.disk) = Outside(fs_before.disk)

\* C15: read_file of a path inside the base directory, right after
\* write_files wrote that one path, returns exactly the written content.
C15_WriteReadRoundTrip ==
    (/\ call.kind = "read_file"
     /\ call.written # None
     /\ \A p \in call.paths : InsideRoot(resolve_path(Root, p))) =>
        /\ call.error = None
        /\ call.content = call.written

\* C18: cleanup removes the base directory with every file in it, and
\* called when the directory is not there it succeeds and changes nothing.
C18_CleanupIdempotent ==
    call.kind = "cleanup" =>
        /\ call.error = None
        /\ ~fs.exists
        /\ \A e \in fs.disk : ~InsideRoot(e[1])
        /\ cleanup(fs) = [fs |-> fs, error |-> None]
        /\ (~fs_before.exists => fs = fs_before)

\* cleanup called when the base directory was already removed
C18_Witness ==
    /\ call.kind = "cleanup"
    /\ call.error = None
    /\ ~fs_before.exists
    /\ fs = fs_before

\* the absolute paths a files map writes
TargetsOf(files) == {resolve_path(Root, files[i][1]) : i \in 1..Len(files)}

CheckCommandResult ==
    run_command(<<"cargo", "check", "--target", "sbf-solana-solana">>, v_proc)

\* C20: a timeout and a missing executable are both returned as a failure
\* with empty stdout and a synthetic message in stderr, differing only in
\* the message; the validate call that spawned the subprocess returns.
C20_FaultsReturned ==
    (v_pc = "done" /\ v_result.spawned = 1
        /\ v_proc.kind \in {"timeout", "notfound"}) =>
        /\ CheckCommandResult[1] = FALSE
        /\ CheckCommandResult[2] = ""
        /\ CheckCommandResult[3] =
              (IF v_proc.kind = "timeout" THEN "Command timed out"
               ELSE "Command not found: cargo")
        /\ ~v_result.passed
        /\ v_result.logs = CheckCommandResult[3]

\* a validate call whose toolchain subprocess timed out
C20_Witness ==
    /\ v_pc = "done"
    /\ v_result.spawned = 1
    /\ v_proc.kind = "timeout"
    /\ ~v_result.passed
    /\ v_result.logs = "Command timed out"

\* ------------------------------------------------------------------------
\* Properties of a write with a reader beside it (checked under SpecSteps)
\* ------------------------------------------------------------------------

\* the contents the call gives the file at the absolute path
WrittenTo(path) ==
    {w_files[i][2] : i \in {j \in 1..Len(w_files) : _resolve(w_files[j][1]).path = path}}

\* C16: a read of a path beside a write of it returns the complete previous
\* content (or finds no file) or the complete new content.
C16_ReaderSeesWholeFile ==
    seen.kind = "read_file" =>
        seen.content \in {FileAt(fs_before.disk, seen.path)} \cup WrittenTo(seen.path)

\* the content the listing has for the relative path, None when it has none
Listed(listing, rel_path) ==
    IF \E e \in listing : e[1] = rel_path
    THEN (CHOOSE e \in listing : e[1] = rel_path)[2]
    ELSE None

\* the paths of the call that lie in the base directory
ProjectPathsOfCall ==
    {w_files[i][1] : i \in {j \in 1..Len(w_files) :
                              InsideRoot(resolve_path(Root, w_files[j][1]))}}

\* C17: a reader of the whole project sees the files of one attempt: of the
\* paths a call writes, either all are as before the call or all are new.
C17_OneAttemptOnDisk ==
    seen.kind = "read_all_files" =>
        \/ \A p \in ProjectPathsOfCall :
              Listed(seen.listing, p) = Listed(read_all_files(fs_before), p)
        \/ \A p \in ProjectPathsOfCall :
              Listed(seen.listing, p) \in WrittenTo(resolve_path(Root, p))

\* ------------------------------------------------------------------------
\* Further properties of the workflow run (checked under Spec)
\* ------------------------------------------------------------------------

\* the build tool of the last build exited with code 0
BuildToolExitedZero == last_build.proc.kind = "exit" /\ last_build.proc.code = 0

\* C21: verify_build reports success exactly when the build tool exited with
\* code 0: without an artifact file the success carries the qualifier
\* "artifact location unknown", and a failed tool gives a failure carrying
\* the tool output even when an artifact file is there.
C21_ExitCodeAuthoritative ==
    last_build.ran =>
        /\ last_build.verified[1] = BuildToolExitedZero
        /\ (BuildToolExitedZero /\ last_build.artifact = None) =>
              last_build.verified[2] = "Build successful (artifact location unknown)"
        /\ ~BuildToolExitedZero =>
              last_build.verified[2] = run_command(<<"anchor", "build">>, last_build.proc)[2]
                                        \o run_command(<<"anchor", "build">>, last_build.proc)[3]

\* a failed build beside an artifact file of an earlier build
C21_Witness ==
    /\ last_build.ran
    /\ ~BuildToolExitedZero
    /\ last_build.artifact # None
    /\ last_build.verified[1] = FALSE
    /\ last_build.verified[2] # ""

\* the last stage invoked was the code generator and its result held no file
GeneratedNothing ==
    prev_stage = "code_generator" /\ ~last_llm.raised /\ last_llm.gen = <<>>

\* C22: when the code generator yields zero files the run is at terminal
\* failure right after that stage, and no stage (static validator, debugger,
\* build) is invoked from then on: the generator stays the last stage invoked
\* and the count of invocations stays what it was.
C22_ZeroFilesFails ==
    [][GeneratedNothing =>
          /\ state.current_step = TerminalFailure
          /\ state.error_message = "Failed to generate code"
          /\ ~last_check.ran /\ ~last_build.ran /\ repair_calls = 0
          /\ GeneratedNothing'
          /\ invocations' = invocations]_vars

C22_Witness ==
    /\ GeneratedNothing /\ returned
    /\ state.files # <<>>
    /\ state.current_step = TerminalFailure

\* C23: once project_name holds a value, no stage after the spec interpreter
\* (project planner, code generator, static validator, debugger, build)
\* changes it.
C23_ProjectNameSetOnce ==
    [][(state.project_name # None /\ prev_stage' # "spec_interpreter")
          => state'.project_name = state.project_name]_vars


\* the content the files map has for the path, None when it has none
FilesGet(files, path) ==
    IF \E i \in 1..Len(files) : files[i][1] = path
    THEN files[CHOOSE i \in 1..Len(files) : files[i][1] = path][2]
    ELSE None

\* the files the stage invoked before the validator produced, as the list of
\* <<path, content>> in the order produced
LatestProduced ==
    IF last_llm.raised THEN <<>>
    ELSE IF repair_calls = 0
    THEN [i \in 1..Len(last_llm.gen) |-> <<last_llm.gen[i].path, last_llm.gen[i].content>>]
    ELSE Flatten([i \in 1..Len(debugger_patches(last_llm)) |->
                    IF IsUsable(debugger_patches(last_llm)[i])
                    THEN << <<debugger_patches(last_llm)[i].path,
                              debugger_patches(last_llm)[i].content>> >>
                    ELSE <<>>])

\* the files below the project directory
ProjectOnDisk(disk) == {e \in disk : InsideRoot(e[1])}

\* the files map laid out below the project directory
FilesAsProject(files) ==
    {<<Root \o "/" \o files[i][1], files[i][2]>> : i \in 1..Len(files)}

\* C24: at every static_validation step the files map given to the local
\* layers is the map the stage before returned, it holds every file that
\* stage produced (the repair patches included) with the content produced,
\* and the project directory the toolchain checks holds exactly the files of
\* that map.
C24_ValidationSeesLatestFiles ==
    (prev_stage = "static_validator" /\ last_check.ran) =>
        /\ last_check.files = state.files
        /\ \A i \in 1..Len(LatestProduced) :
              (\A j \in (i + 1)..Len(LatestProduced) :
                    LatestProduced[j][1] # LatestProduced[i][1])
                 => FilesGet(last_check.files, LatestProduced[i][1]) = LatestProduced[i][2]
        /\ ProjectOnDisk(last_check.project) = FilesAsProject(last_check.files)


\* the state without the handle of the lifecycle sink
WithoutSink(s) == [s EXCEPT !.on_event = None]

\* C25: the run made with no sink (or with a sink that delivers) and the run
\* made with a sink that raises on every notification, given the same stage,
\* validation and build outcomes, are at the same step with the same state
\* after every step: the sink decides no route and a failed delivery fails no
\* run.
C25_SinkNeverRoutes ==
    /\ state.on_event \in {None, SinkDelivers} /\ twin.on_event = SinkRaises
    /\ WithoutSink(twin) = WithoutSink(state)

C25_Witness ==
    /\ returned /\ invocations >= 5
    /\ state.on_event = None
    /\ twin.on_event = SinkRaises
    /\ twin.current_step = TerminalSuccess /\ twin.build_success
    /\ state.current_step = TerminalSuccess

NonRepairStages == {"spec_interpreter", "project_planner", "code_generator"}

\* the last stage invoked is not the repair stage and failed: its call raised
\* or it returned with error_message set
NonRepairStageFailed ==
    /\ prev_stage \in NonRepairStages
    /\ (last_llm.raised \/ state.error_message # None)

\* C27: when a stage other than the repair stage fails, the state carries
\* its error_message and the run is at terminal failure right after it: no
\* stage is invoked from then on (not that stage again, not the validator,
\* the debugger or the build) and retry_count stays what it was.
C27_StageFailureIsFatal ==
    [][NonRepairStageFailed =>
          /\ state.error_message # None
          /\ state.current_step = TerminalFailure
          /\ ~last_check.ran /\ ~last_build.ran /\ repair_calls = 0
          /\ prev_stage' = prev_stage
          /\ invocations' = invocations
          /\ state'.retry_count = state.retry_count]_vars

C27_Witness ==
    /\ returned /\ prev_stage = "project_planner" /\ invocations = 2
    /\ ~last_llm.raised
    /\ state.error_message # None
    /\ state.current_step = TerminalFailure /\ state.retry_count = 0

\* the last stage invoked was the debugger and it applied at least one patch
RepairAppliedPatches ==
    /\ prev_stage = "debugger" /\ ~last_llm.raised
    /\ \E i \in 1..Len(debugger_patches(last_llm)) : IsUsable(debugger_patches(last_llm)[i])

\* C28: after a repair that applied patches the next step is
\* static_validator; the step after the debugger is never the build nor
\* terminal success; the build is only entered right after a validation that
\* passed, so a passing validation lies between the last repair and the build.
C28_RepairRevalidates ==
    /\ RepairAppliedPatches => state.current_step = "static_validator"
    /\ prev_stage = "debugger" =>
          state.current_step \notin {"build_contract", TerminalSuccess}
    /\ state.current_step = "build_contract" =>
          prev_stage = "static_validator" /\ last_check.ran /\ last_check.passed
    /\ last_build.ran => last_check.ran /\ last_check.passed

C28_Witness ==
    /\ last_build.ran /\ repair_calls = 1
    /\ \E i \in 1..Len(debugger_patches(last_llm)) : IsUsable(debugger_patches(last_llm)[i])
    /\ last_check.passed

\* the number of times the run has entered the repair stage: the debugger
\* invocations made, and the one due when the run stands at the repair step
RepairEntered ==
    repair_calls + (IF state.current_step = "debugger" THEN 1 ELSE 0)

\* C29: retry_count is the number of times the repair stage was entered and
\* fix_attempted holds exactly when it was entered at least once, that is
\* when retry_count >= 1.
C29_RetryCountsRepairs ==
    /\ state.retry_count = RepairEntered
    /\ state.fix_attempted <=> RepairEntered >= 1
    /\ state.fix_attempted <=> state.retry_count >= 1

C29_Witness ==
    /\ returned /\ repair_calls = 1
    /\ state.retry_count = 1 /\ state.fix_attempted
    /\ prev_stage = "build_contract"

\* Properties of the validator stage taken on its own (checked under
\* SpecAttempts)

ProducedBy(step, llm) ==
    IF llm.raised THEN <<>>
    ELSE IF step = "code_generator"
    THEN [i \in 1..Len(llm.gen) |-> <<llm.gen[i].path, llm.gen[i].content>>]
    ELSE Flatten([i \in 1..Len(debugger_patches(llm)) |->
                    IF IsUsable(debugger_patches(llm)[i])
                    THEN << <<debugger_patches(llm)[i].path,
                              debugger_patches(llm)[i].content>> >>
                    ELSE <<>>])

\* the paths of a list of <<path, content>>
PathsOf(entries) == {entries[i][1] : i \in 1..Len(entries)}

\* C31: a code generator or debugger invocation that produced files leaves
\* in the files map the new content at every path it produced, the previous
\* content at every other path, and every path that was there before.
C31_OverwriteByPath ==
    [][(state.current_step \in {"code_generator", "debugger"}
          /\ ProducedBy(state.current_step, last_llm') # <<>>) =>
          \E produced \in {ProducedBy(state.current_step, last_llm')} :
             /\ \A i \in 1..Len(produced) :
                   (\A j \in (i + 1)..Len(produced) : produced[j][1] # produced[i][1])
                      => FilesGet(state'.files, produced[i][1]) = produced[i][2]
             /\ \A i \in 1..Len(state.files) :
                   state.files[i][1] \notin PathsOf(produced)
                      => FilesGet(state'.files, state.files[i][1]) = state.files[i][2]
             /\ PathsOf(state.files) \subseteq PathsOf(state'.files)
             /\ PathsOf(state'.files) = PathsOf(state.files) \cup PathsOf(produced)]_vars

C31_Witness ==
    /\ prev_stage = "debugger" /\ repair_calls = 1
    /\ FilesGet(last_check.files, LibPath) = BadRs
    /\ FilesGet(state.files, LibPath) = GoodRs
    /\ FilesGet(state.files, "Anchor.toml") = "[provider]"
    /\ Len(state.files) = Len(last_check.files)

\* the two notifications around the k-th stage invocation
StartOf(k) == events[2 * k - 1]
EndOf(k) == events[2 * k]

\* C32: the notifications handed to the sink come in pairs, one pair for
\* each stage invocation made: the start of a stage directly followed by the
\* end of the same stage, the last pair being that of the stage invoked last;
\* starts and ends alternate, no pair lies inside another and no start is
\* left without its end.
C32_StagesBracketed ==
    (state.on_event # None \/ events # <<>>) =>
        /\ Len(events) = 2 * invocations
        /\ \A k \in 1..invocations :
              \E name \in StageNames :
                 /\ StartOf(k) = "stage:" \o name \o ":start"
                 /\ EndOf(k) = "stage:" \o name \o ":end"
        /\ invocations > 0 => EndOf(invocations) = "stage:" \o prev_stage \o ":end"

C32_Witness ==
    /\ returned /\ state.on_event = SinkDelivers
    /\ Len(events) = 12
    /\ events[7] = "stage:static_validator:start"
    /\ events[9] = "stage:debugger:start" /\ events[10] = "stage:debugger:end"
    /\ events[12] = "stage:static_validator:end"

\* Further properties of validate (checked under SpecValidate)

\* the delimiter-mismatch errors the result of the call has for the file
DelimiterErrors(path) ==
    {i \in 1..Len(v_result.errors) :
        v_result.errors[i] \in {path \o ": Mismatched braces",
                                path \o ": Mismatched parentheses",
                                path \o ": Mismatched brackets"}}

\* every bracket kind of the content is balanced
Balanced(content) ==
    /\ Count(content, "{") = Count(content, "}")
    /\ Count(content, "(") = Count(content, ")")
    /\ Count(content, "[") = Count(content, "]")

\* C33: for each .rs file of the map the result of validate holds exactly
\* one delimiter-mismatch error when some bracket kind of the file is
\* unbalanced, also when two or three kinds are, and none when all three
\* kinds are balanced.
C33_OneDelimiterError ==
    v_pc = "done" =>
        \A i \in 1..Len(v_files) :
            EndsWith(v_files[i][1], ".rs") =>
                Cardinality(DelimiterErrors(v_files[i][1]))
                    = (IF Balanced(v_files[i][2]) THEN 0 ELSE 1)

\* the content has a line that is neither blank nor a comment
HasCode(content) ==
    \E k \in 1..Len(Split(content, "\n")) :
        /\ Strip(Split(content, "\n")[k]) # ""
        /\ ~StartsWith(Strip(Split(content, "\n")[k]), "//")

\* C34: every .rs file of the map that has a line of code and neither
\* "use anchor_lang" nor "use solana_program" gets the missing-import error
\* in the result of validate, also when its first line is a comment.
C34_ImportRequired ==
    v_pc = "done" =>
        \A i \in 1..Len(v_files) :
            (/\ EndsWith(v_files[i][1], ".rs")
             /\ HasCode(v_files[i][2])
             /\ ~Contains(v_files[i][2], "use anchor_lang")
             /\ ~Contains(v_files[i][2], "use solana_program")) =>
                \E k \in 1..Len(v_result.errors) :
                    v_result.errors[k] = v_files[i][1]
                        \o ": Missing anchor_lang or solana_program import"

\* Retries live in the engine only (checked under Spec)

\* C35: no lower layer retries.  The last validate call spawned at most one
\* toolchain subprocess; over the run the toolchain checks spawned are at
\* most the static_validation steps made, which are at most MAX_RETRIES + 1;
\* a build step spawned exactly one subprocess and at most one build step
\* was made.
C35_NoInternalRetry ==
    /\ last_check.spawned \in {0, 1}
    /\ last_check.checks <= last_check.steps
    /\ last_check.steps <= MAX_RETRIES + 1
    /\ last_build.spawned = (IF last_build.ran THEN 1 ELSE 0)

\* a failed toolchain check, a repair, a second toolchain check and a build
\* whose one subprocess timed out
C35_Witness ==
    /\ returned
    /\ last_build.ran
    /\ last_check.steps = 2
    /\ last_build.proc.kind = "timeout"
    /\ last_check.checks = 2

\* C36: the specification text is never changed: in every state of a run,
\* the terminal state included, user_spec is the text the run was started
\* with, whatever stages, error paths, validations and repairs were made.
C36_SpecificationImmutable ==
    state.user_spec = "create a mintable token"

\* a run that went through every stage, the repair stage included, and
\* returned
C36_Witness ==
    /\ returned
    /\ repair_calls = 1
    /\ last_build.ran
    /\ state.interpreted_spec # None
    /\ state.user_spec = "create a mintable token"

\* C37 (checked under SpecValidate): whenever validate returns passed = FALSE
\* the errors list it returns is not empty, also when the toolchain check
\* failed with output no line of which matches a diagnostic pattern.
C37_FailureHasErrors ==
    (v_pc = "done" /\ ~v_result.passed) => v_result.errors # <<>>

\* Further properties of the store (checked under SpecStore)

\* maps of paths inside the root, among them a path and the same path with
\* the staging suffix
InRootPaths == {"src/lib.rs", "a.rs", "a.rs.tmp"}

InRootMaps ==
    UNION {{d \in [1..n -> InRootPaths \X StoreContents] :
              \A i, j \in 1..n : i # j => d[i][1] # d[j][1]} : n \in 1..MaxFiles}

\* every key of the map is in the store with the content the map gives it
HoldsAll(store, m) ==
    \A i \in 1..Len(m) : FileAt(store.disk, _resolve(m[i][1]).path) = m[i][2]

\* C38: on every store, a write_files or apply_patches call on a map of
\* in-root paths that returns without error leaves every key of the map in
\* the store with the content the map gives it, also when one key is
\* another key followed by ".tmp".
C38_WrittenKeysPresent ==
    \A m \in InRootMaps :
        /\ \E w \in {write_files(fs, m)} : w.error = None => HoldsAll(w.fs, m)
        /\ \E a \in {apply_patches(fs, m)} : a.error = None => HoldsAll(a.fs, m)

\* C39: a write_files or apply_patches call that failed because a path of
\* the map escapes the root left the store as it was before the call.
C39_FailedWriteChangesNothing ==
    (call.kind \in {"write_files", "apply_patches"} /\ call.error # None)
        => fs = fs_before

\* Stage failures (checked under Spec)

LlmStages == {"spec_interpreter", "project_planner", "code_generator", "debugger"}

\* run of the stage the step names
StageRun(step, s, llm) ==
    CASE step = "spec_interpreter" -> SpecInterpreter_run(s, llm)
      [] step = "project_planner"  -> ProjectPlanner_run(s, llm)
      [] step = "code_generator"   -> CodeGenerator_run(s, llm)
      [] step = "debugger"         -> Debugger_run(s, llm)

====
